---- MODULE Spec2Model ----
(***************************************************************************)
(* Event subscription subsystem of aiosonos (src/aiosonos/event.py):       *)
(* class Subscription (subscribe / renew / unsubscribe / unsubscribe_all,  *)
(* the class-level registry _instances, the auto-renew loop) and the       *)
(* start-up of the EventServer singleton.                                  *)
(*                                                                         *)
(* The program runs on one asyncio event loop: a coroutine runs without    *)
(* interruption from one await that suspends to the next.  Every action    *)
(* below is one such uninterrupted stretch of code.  Awaiting a coroutine  *)
(* that returns without suspending does not yield, so such calls are part  *)
(* of the caller's stretch.                                                *)
(***************************************************************************)
EXTENDS Integers, Sequences, FiniteSets, TLC

\* ---------------------------------------------------------------- bounds
NumSubs == 2          \* Subscription objects created by the caller
MaxSid == 2           \* subscription ids the devices hand out
MaxInflight == 2      \* coroutines suspended in an HTTP request at one time
MaxQueue == 1         \* handle_event calls scheduled at one time
MaxClock == 2         \* distinct readings of time.time()
MaxSmallTimeout == 40 \* every granted timeout up to this one is tried

Subs == 1 .. NumSubs
Sids == 1 .. MaxSid
Times == 1 .. MaxClock

\* ------------------------------------------------------- program values
EmptySid == 0         \* Subscription.__init__: self.sid = ''
NoUrl == <<>>         \* EventServer.url before ensure_running assigned it
NoDelay == -1         \* auto_renew_delay is None
NoSub == 0            \* dict.get(sid) is None

StateNew == 0
StateSubscribed == 1
StateUnsubscribed == 2

\* models.Player: one Player per Subscription here, reached through a
\* local address of its own (multi-homed host)
PlayerOf(s) == <<"player", s>>
LocalAddr(p) == <<"http", p[2]>>

\* models.Player.__init__: the address of a Player object
IpAddress(p) == p[2]

\* discover.py builds models.Player(addr[0]) without the cache of
\* Player.get_instance: a Player object of its own for address a
DiscoveredPlayer(a) == <<"player", a, "discovered">>

\* the Player objects a caller can hold for address a: those the
\* Subscriptions were created with and the one discovery returns
PlayerRefs(a) ==
    {PlayerOf(s) : s \in {x \in 1 .. NumSubs : IpAddress(PlayerOf(x)) = a}}
    \cup {DiscoveredPlayer(a)}

\* ------------------------------------------------ header text (as chars)
HdrInfinite == <<"i","n","f","i","n","i","t","e">>
HdrInfiniteUpper == <<"I","N","F","I","N","I","T","E">>
HdrSecond1800 == <<"S","e","c","o","n","d","-","1","8","0","0">>
HdrSecond7200 == <<"S","e","c","o","n","d","-","7","2","0","0">>
HdrSecond0 == <<"S","e","c","o","n","d","-","0">>
HdrLowerSecond == <<"s","e","c","o","n","d","-","6","0">>

Digits == <<"0","1","2","3","4","5","6","7","8","9">>

DigitVal(c) == (CHOOSE i \in 1 .. 10 : Digits[i] = c) - 1

IsDigit(c) == \E i \in 1 .. 10 : Digits[i] = c

\* a lower() that leaves every letter as it is
LowerNothing(str) == str

\* str.lower() on the letters that occur in the headers
Lower(str) ==
    [i \in 1 .. Len(str) |->
        CASE str[i] = "I" -> "i"
          [] str[i] = "N" -> "n"
          [] str[i] = "F" -> "f"
          [] str[i] = "T" -> "t"
          [] str[i] = "E" -> "e"
          [] str[i] = "S" -> "s"
          [] OTHER -> str[i]]

\* str.lstrip(chars): drops every leading character that is in chars
RECURSIVE LStrip(_, _)
LStrip(str, chars) ==
    IF str = <<>> THEN <<>>
    ELSE IF Head(str) \in chars THEN LStrip(Tail(str), chars)
    ELSE str

RECURSIVE DecimalValue(_, _)
DecimalValue(str, acc) ==
    IF str = <<>> THEN acc
    ELSE DecimalValue(Tail(str), acc * 10 + DigitVal(Head(str)))

\* int(text) for text made of decimal digits; anything else is ValueError
ParseInt(str) ==
    IF str # <<>> /\ \A i \in 1 .. Len(str) : IsDigit(str[i])
    THEN [ok |-> TRUE, val |-> DecimalValue(str, 0)]
    ELSE [ok |-> FALSE, err |-> "value_error"]

SecondChars == {"S","e","c","o","n","d","-"}

\* the decimal digits of n, as a device writes them into its header
RECURSIVE DecimalText(_)
DecimalText(n) ==
    IF n < 10 THEN <<Digits[n + 1]>>
    ELSE Append(DecimalText(n \div 10), Digits[(n % 10) + 1])

\* the TIMEOUT header of a device that grants n seconds
SecondHdr(n) == <<"S","e","c","o","n","d","-">> \o DecimalText(n)

\* the word infinite as devices may spell it
InfiniteTexts ==
    {HdrInfinite, HdrInfiniteUpper, <<"I","n","f","i","n","i","t","e">>}

\* granted timeouts: the small ones, the documented examples and the
\* values around the 3600 s threshold of the renewal delay
TimeoutValues ==
    (0 .. MaxSmallTimeout) \cup {1800, 3599, 3600, 3601, 3780, 7200}

TimeoutTexts == InfiniteTexts \cup {SecondHdr(n) : n \in TimeoutValues}

\* headers[name] raises KeyError when the response lacks the header
HasHeader(headers, name) == name \in DOMAIN headers

\* Subscription._parse_timeout(headers)
ParseTimeout(headers) ==
    IF ~HasHeader(headers, "timeout") THEN [ok |-> FALSE, err |-> "key_error"]
    ELSE IF Lower(headers.timeout) = HdrInfinite THEN [ok |-> TRUE, val |-> -1]
    ELSE ParseInt(LStrip(headers.timeout, SecondChars))

\* a delay of 95% whatever the timeout
RenewDelayAlways95(t) == (t * 95) \div 100

\* Subscription.subscribe, lines 142-145: the delay of the renewal loop.
\* int(timeout * 0.95) in double arithmetic equals the exact floor of
\* 95 * timeout / 100 for every timeout from 0 to 3600.
RenewDelay(t) ==
    IF t <= 3600 THEN (t * 95) \div 100 ELSE t - 180

\* -------------------------------------------------- the devices' answers
\* A request fails in transport, or it is answered with a status and
\* headers.  The headers of an error response are never read, so error
\* responses are drawn without headers.
TransportError == "transport_error"
Statuses == {200, 204, 412, 500}
TimeoutHdrs == {HdrInfinite, HdrSecond1800, HdrLowerSecond}
NoHeaders == [x \in {} |-> 0]

Failures ==
    [kind : {TransportError}] \cup
    [kind : {"response"}, status : {500}, headers : {NoHeaders}]

\* the answers to SUBSCRIBE when the sids in fresh can be handed out
SubscribeOutcomes(fresh) ==
    Failures \cup
    [kind : {"response"}, status : {200},
     headers : {NoHeaders} \cup [sid : fresh] \cup [timeout : TimeoutHdrs]
               \cup [sid : fresh, timeout : TimeoutHdrs]]

\* the answers to SUBSCRIBE of a device that accepts and states a timeout
TimeoutOutcomes(fresh) ==
    [kind : {"response"}, status : {200},
     headers : [sid : fresh, timeout : TimeoutTexts]]

\* the answers to a renewal of a device that accepts it and states a
\* timeout: none, a short one or one of the documented examples
RegrantOutcomes ==
    [kind : {"response"}, status : {200},
     headers : [timeout : {HdrInfinite, SecondHdr(0), SecondHdr(20),
                           SecondHdr(1800), SecondHdr(7200)}]]

RenewOutcomes ==
    Failures \cup
    [kind : {"response"}, status : {200},
     headers : {NoHeaders} \cup [timeout : TimeoutHdrs]]

UnsubscribeOutcomes ==
    [kind : {TransportError}] \cup [kind : {"response"}, status : Statuses]

\* a status check that lets the server errors (5xx) through
RaisesOnlyForClientError(status) == status \in 400 .. 499

\* aiohttp ClientResponse.raise_for_status()
RaisesForStatus(status) == status >= 400

\* ----------------------------------------------------------------- state
VARIABLES
    subs,          \* the fields of every Subscription object
    instances,     \* Subscription._instances, in insertion order
    server,        \* EventServer.server is not None
    url,           \* EventServer.url
    ensure,        \* the subscribe() call that is inside ensure_running
    subReq,        \* subscribe() calls awaiting the SUBSCRIBE response
    renewReq,      \* renew() calls awaiting the SUBSCRIBE response
    unsubReq,      \* unsubscribe() calls awaiting the UNSUBSCRIBE response
    loopSleeping,  \* _auto_renew_loop tasks in asyncio.sleep
    loopRenewing,  \* _auto_renew_loop tasks awaiting their renew()
    ua,            \* the unsubscribe_all() coroutine
    issued,        \* subscription ids the devices have handed out so far
    closed,        \* upnp.close() has closed the ClientSession in use
    callback,      \* the Callback header of each Subscription's latest SUBSCRIBE
    queue,         \* handle_event calls scheduled with loop.call_soon
    delivered,     \* the latest call of a Subscription's callback
    last           \* the operation that took the latest step and how it ended

vars == <<subs, instances, server, url, ensure, subReq, renewReq, unsubReq,
          loopSleeping, loopRenewing, ua, issued, closed, callback, queue,
          delivered, last>>

\* Subscription.__init__
NewSubscription ==
    [state |-> StateNew, sid |-> EmptySid, subscribe_url |-> <<>>,
     timeout |-> -1, timestamp |-> 0,
     auto_renew_delay |-> NoDelay, auto_renew_task |-> FALSE]

\* an Event that drops the sequence number
EventWithoutSeq(s, seq, properties) ==
    [subscription |-> s, player |-> PlayerOf(s), seq |-> 0,
     properties |-> properties]

\* Event.__init__ (lines 27-36): the Subscription, its player, the sequence
\* number and the properties
Event(s, seq, properties) ==
    [subscription |-> s, player |-> PlayerOf(s), seq |-> seq,
     properties |-> properties]

\* no callback has been called yet
NoCall == [sub |-> NoSub, event |-> Event(NoSub, -1, <<>>)]

NoEnsure == [pc |-> "none", sub |-> NoSub]
UaIdle == [pc |-> "idle", cur |-> NoSub, rest |-> <<>>]
Last(op, res) == [op |-> op, res |-> res]

Init ==
    /\ subs = [s \in Subs |-> NewSubscription]
    /\ instances = <<>>
    /\ server = FALSE
    /\ url = NoUrl
    /\ ensure = NoEnsure
    /\ subReq = [s \in Subs |-> 0]
    /\ renewReq = [s \in Subs |-> 0]
    /\ unsubReq = [s \in Subs |-> 0]
    /\ loopSleeping = [s \in Subs |-> 0]
    /\ loopRenewing = [s \in Subs |-> 0]
    /\ ua = UaIdle
    /\ issued = 0
    /\ closed = FALSE
    /\ callback = [s \in Subs |-> NoUrl]
    /\ queue = <<>>
    /\ delivered = NoCall
    /\ last = Last("init", "ok")

\* ----------------------------------------------------------- the registry
\* dict: _instances[k] = v keeps the position of an existing key
RegistryPut(reg, k, v) ==
    IF \E i \in 1 .. Len(reg) : reg[i].sid = k
    THEN [i \in 1 .. Len(reg) |->
            IF reg[i].sid = k THEN [sid |-> k, sub |-> v] ELSE reg[i]]
    ELSE Append(reg, [sid |-> k, sub |-> v])

RegistryHas(reg, k) == \E i \in 1 .. Len(reg) : reg[i].sid = k

\* del _instances[k], for a key that is present
RegistryDel(reg, k) == SelectSeq(reg, LAMBDA e : e.sid # k)

\* a lookup that falls back to the oldest entry
GetInstanceOrOldest(k) ==
    IF RegistryHas(instances, k)
    THEN (CHOOSE e \in {instances[i] : i \in 1 .. Len(instances)} : e.sid = k).sub
    ELSE IF instances # <<>> THEN instances[1].sub
    ELSE NoSub

\* Subscription.get_instance(sid): dict.get
GetInstance(k) ==
    IF RegistryHas(instances, k)
    THEN (CHOOSE e \in {instances[i] : i \in 1 .. Len(instances)} : e.sid = k).sub
    ELSE NoSub

\* list(cls._instances.values())
RegistryValues(reg) == [i \in 1 .. Len(reg) |-> reg[i].sub]

\* Subscription.get_subscriptions(player): the registered Subscriptions
\* whose player is the very object passed in (sub.player is player)
GetSubscriptions(player) ==
    SelectSeq(RegistryValues(instances), LAMBDA s : PlayerOf(s) = player)

\* coroutines suspended in an HTTP request or in the server start-up
Inflight ==
    LET Pending(s) == subReq[s] + renewReq[s] + unsubReq[s] + loopRenewing[s]
        RECURSIVE Total(_)
        Total(S) == IF S = {} THEN 0
                    ELSE LET x == CHOOSE y \in S : TRUE
                         IN Pending(x) + Total(S \ {x})
    IN Total(Subs) + (IF ua.pc = "waiting" THEN 1 ELSE 0)
                   + (IF ensure.pc # "none" THEN 1 ELSE 0)

\* A device never hands out a subscription id twice: the next SUBSCRIBE
\* that is answered with a SID header carries the next id.
FreshSids == IF issued < MaxSid THEN {issued + 1} ELSE {}

\* session.request on a closed ClientSession raises and answers nothing
SessionGives(out) == closed => out.kind = TransportError

\* sonos.close() -> upnp.close(): the ClientSession is closed; nothing
\* else is touched
Close ==
    /\ closed' = TRUE
    /\ last' = Last("close", "ok")
    /\ UNCHANGED <<subs, instances, server, url, ensure, subReq, renewReq,
                   unsubReq, loopSleeping, loopRenewing, ua, issued, callback,
                   queue, delivered>>

\* the other variable groups, for UNCHANGED
srv == <<server, url, ensure>>
loops == <<loopSleeping, loopRenewing>>
notif == <<queue, delivered>>

\* ----------------------------------------------------- EventServer.get_url
\* a get_url that hands back whatever it has, set or not
GetUrlOrEmpty == [ok |-> TRUE, val |-> url]

\* lines 258-259: the attribute url exists once line 255 has assigned it;
\* reading it before raises AttributeError
GetUrl ==
    IF url = NoUrl THEN [ok |-> FALSE, err |-> "attribute_error"]
    ELSE [ok |-> TRUE, val |-> url]

\* -------------------------------------------------- Subscription.subscribe
\* a state check that only refuses an unsubscribed Subscription
CanSubscribeUnlessUnsubscribed(s) == subs[s].state # StateUnsubscribed

\* line 91: the state check of subscribe()
CanSubscribe(s) == subs[s].state = StateNew

\* a request that advertises the wildcard address
SendSubscribeWildcard(s, callback_url) ==
    /\ callback' = [callback EXCEPT ![s] = <<"http", 0>>]
    /\ subs' = [subs EXCEPT ![s].subscribe_url = <<PlayerOf(s), "Event">>]
    /\ subReq' = [subReq EXCEPT ![s] = @ + 1]
    /\ last' = Last("subscribe", "pending")

\* lines 106-119: get_url(), build the request with the Callback header,
\* await session.request
SendSubscribe(s, callback_url) ==
    /\ callback' = [callback EXCEPT ![s] = callback_url]
    /\ subs' = [subs EXCEPT ![s].subscribe_url = <<PlayerOf(s), "Event">>]
    /\ subReq' = [subReq EXCEPT ![s] = @ + 1]
    /\ last' = Last("subscribe", "pending")

\* subscribe() from its call to its first suspension (or its failure)
SubscribeCall(s) ==
    IF ~CanSubscribe(s)
    THEN /\ last' = Last("subscribe", "usage_error")
         /\ UNCHANGED <<subs, instances, srv, subReq, renewReq, unsubReq,
                        loops, ua, issued, closed, callback, notif>>
    ELSE IF ~server
    THEN \* ensure_running: create the server, suspend in runner.setup()
         /\ server' = TRUE
         /\ ensure' = [pc |-> "setup", sub |-> s]
         /\ last' = Last("subscribe", "pending")
         /\ UNCHANGED <<subs, instances, url, subReq, renewReq, unsubReq,
                        loops, ua, issued, closed, callback, notif>>
    ELSE IF ~GetUrl.ok
    THEN \* ensure_running returns at once; get_url() finds no attribute url
         /\ last' = Last("subscribe", GetUrl.err)
         /\ UNCHANGED <<subs, instances, srv, subReq, renewReq, unsubReq,
                        loops, ua, issued, closed, callback, notif>>
    ELSE /\ SendSubscribe(s, GetUrl.val)
         /\ UNCHANGED <<instances, srv, renewReq, unsubReq, loops, ua, issued, closed, notif>>

\* ensure_running: runner.setup() has finished, suspend in sock_connect
EnsureSetupDone ==
    /\ ensure.pc = "setup"
    /\ ensure' = [ensure EXCEPT !.pc = "addr"]
    /\ UNCHANGED <<subs, instances, server, url, subReq, renewReq, unsubReq,
                   loops, ua, issued, closed, callback, notif, last>>

\* _get_local_addr: sock_connect has finished or failed; suspend in
\* site.start()
EnsureAddrDone(ok) ==
    /\ ensure.pc = "addr"
    /\ IF ok
       THEN /\ ensure' = [ensure EXCEPT !.pc = "start"]
            /\ UNCHANGED last
       ELSE /\ ensure' = NoEnsure
            /\ last' = Last("subscribe", "transport_error")
    /\ UNCHANGED <<subs, instances, server, url, subReq, renewReq, unsubReq,
                   loops, ua, issued, closed, callback, notif>>

\* ensure_running: site.start() has finished; the url is assigned and
\* subscribe() goes on to send its request
EnsureStartDone ==
    /\ ensure.pc = "start"
    /\ url' = LocalAddr(PlayerOf(ensure.sub))
    /\ ensure' = NoEnsure
    /\ SendSubscribe(ensure.sub, url')
    /\ UNCHANGED <<instances, server, renewReq, unsubReq, loops, ua, issued, closed, notif>>

\* a test that starts the renewal for every finite timeout
StartsRenewalUnlessInfinite(auto_renew, t) == auto_renew /\ t >= 0

\* line 141: a renewal task is created when auto_renew was asked for and
\* the timeout is positive
StartsRenewal(auto_renew, t) == auto_renew /\ t > 0

\* lines 129-131 and 140-148: the fields of the Subscription once the
\* timeout header has parsed to t
Subscribed(obj, t, clock, auto_renew) ==
    LET renewing == StartsRenewal(auto_renew, t)
    IN [obj EXCEPT !.timeout = t, !.timestamp = clock,
                   !.state = StateSubscribed,
                   !.auto_renew_delay = IF renewing THEN RenewDelay(t) ELSE @,
                   !.auto_renew_task = IF renewing THEN TRUE ELSE @]

\* subscribe() from the answer to its request to its end.  The argument
\* auto_renew is not read before line 141, so it is drawn where it is read;
\* the clock is read at line 130.
SubscribeDone(s, auto_renew, out) ==
    /\ subReq[s] > 0
    /\ SessionGives(out)
    /\ subReq' = [subReq EXCEPT ![s] = @ - 1]
    /\ IF out.kind = TransportError
       THEN /\ last' = Last("subscribe", "transport_error")
            /\ UNCHANGED <<subs, instances, loopSleeping, issued>>
       ELSE IF RaisesForStatus(out.status)
       THEN /\ last' = Last("subscribe", "status_error")
            /\ UNCHANGED <<subs, instances, loopSleeping, issued>>
       ELSE IF ~HasHeader(out.headers, "sid")
       THEN /\ last' = Last("subscribe", "key_error")
            /\ UNCHANGED <<subs, instances, loopSleeping, issued>>
       ELSE LET k == out.headers.sid
                t == ParseTimeout(out.headers)
            IN \* lines 123-127 run before _parse_timeout can raise
               /\ issued' = issued + 1
               /\ instances' = RegistryPut(instances, k, s)
               /\ IF ~t.ok
                  THEN /\ subs' = [subs EXCEPT ![s].sid = k]
                       /\ last' = Last("subscribe", t.err)
                       /\ UNCHANGED loopSleeping
                  ELSE /\ \E clock \in Times :
                             subs' = [subs EXCEPT
                                ![s] = Subscribed([@ EXCEPT !.sid = k],
                                                  t.val, clock, auto_renew)]
                       /\ loopSleeping' =
                            [loopSleeping EXCEPT
                               ![s] = IF StartsRenewal(auto_renew, t.val)
                                      THEN @ + 1 ELSE @]
                       /\ last' = Last("subscribe", "ok")
    /\ UNCHANGED <<srv, renewReq, unsubReq, loopRenewing, ua, closed, callback, notif>>

\* ------------------------------------------------------ Subscription.renew
\* a state check that only refuses a brand-new Subscription
CanRenewUnlessNew(s) == subs[s].state # StateNew

\* line 161: the state check of renew()
CanRenew(s) == subs[s].state = StateSubscribed

\* a renewal that also marks the Subscription subscribed
RenewedAndSubscribed(obj, t, clock) ==
    [obj EXCEPT !.timeout = t, !.timestamp = clock, !.state = StateSubscribed]

\* lines 179-180: what a successful renewal writes
Renewed(obj, t, clock) == [obj EXCEPT !.timeout = t, !.timestamp = clock]

\* lines 171-179 once the request has been answered: the way renew() ends
RenewResult(out) ==
    IF out.kind = TransportError THEN "transport_error"
    ELSE IF RaisesForStatus(out.status) THEN "status_error"
    ELSE IF ~ParseTimeout(out.headers).ok THEN ParseTimeout(out.headers).err
    ELSE "ok"

\* a renewal that stamps the Subscription whatever the answer was
RenewAnsweredStamped(s, out) ==
    \E clock \in Times :
       subs' = [subs EXCEPT
          ![s] = IF RenewResult(out) # "ok"
                 THEN [@ EXCEPT !.timestamp = clock]
                 ELSE Renewed(@, ParseTimeout(out.headers).val, clock)]

\* lines 179-180: the fields of s after the answer; the clock is read
\* once the timeout header has parsed
RenewAnswered(s, out) ==
    IF RenewResult(out) # "ok"
    THEN UNCHANGED subs
    ELSE \E clock \in Times :
            subs' = [subs EXCEPT
               ![s] = Renewed(@, ParseTimeout(out.headers).val, clock)]

\* renew() called by the program, up to its suspension in the request
RenewCall(s) ==
    IF ~CanRenew(s)
    THEN /\ last' = Last("renew", "usage_error")
         /\ UNCHANGED <<subs, instances, srv, subReq, renewReq, unsubReq,
                        loops, ua, issued, closed, callback, notif>>
    ELSE /\ renewReq' = [renewReq EXCEPT ![s] = @ + 1]
         /\ last' = Last("renew", "pending")
         /\ UNCHANGED <<subs, instances, srv, subReq, unsubReq, loops, ua, issued, closed, callback, notif>>

\* renew() from the answer to its request to its end
RenewDone(s, out) ==
    /\ renewReq[s] > 0
    /\ SessionGives(out)
    /\ renewReq' = [renewReq EXCEPT ![s] = @ - 1]
    /\ RenewAnswered(s, out)
    /\ last' = Last("renew", RenewResult(out))
    /\ UNCHANGED <<instances, srv, subReq, unsubReq, loops, ua, issued, closed, callback, notif>>

\* ------------------------------------------- Subscription._auto_renew_loop
\* a loop task that calls renew() only while no other task awaits one
LoopWakeSerial(s) ==
    /\ loopSleeping[s] > 0
    /\ \A o \in Subs : loopRenewing[o] = 0
    /\ IF ~CanRenew(s)
       THEN /\ last' = Last("auto_renew", "logged_usage_error")
            /\ UNCHANGED loops
       ELSE /\ loopSleeping' = [loopSleeping EXCEPT ![s] = @ - 1]
            /\ loopRenewing' = [loopRenewing EXCEPT ![s] = @ + 1]
            /\ last' = Last("auto_renew", "pending")
    /\ UNCHANGED <<subs, instances, srv, subReq, renewReq, unsubReq, ua, issued, closed, callback, notif>>

\* the sleep of one loop task ends and it calls renew(); an exception of
\* renew() is caught and logged and the task sleeps again
LoopWake(s) ==
    /\ loopSleeping[s] > 0
    /\ IF ~CanRenew(s)
       THEN /\ last' = Last("auto_renew", "logged_usage_error")
            /\ UNCHANGED loops
       ELSE /\ loopSleeping' = [loopSleeping EXCEPT ![s] = @ - 1]
            /\ loopRenewing' = [loopRenewing EXCEPT ![s] = @ + 1]
            /\ last' = Last("auto_renew", "pending")
    /\ UNCHANGED <<subs, instances, srv, subReq, renewReq, unsubReq, ua, issued, closed, callback, notif>>

\* a loop task that ends when its renew() fails
LoopRenewDoneEnding(s, out) ==
    /\ loopRenewing[s] > 0
    /\ SessionGives(out)
    /\ loopRenewing' = [loopRenewing EXCEPT ![s] = @ - 1]
    /\ loopSleeping' = [loopSleeping EXCEPT
                           ![s] = IF RenewResult(out) = "ok" THEN @ + 1 ELSE @]
    /\ RenewAnswered(s, out)
    /\ last' = Last("auto_renew",
                    IF RenewResult(out) = "ok" THEN "ok" ELSE "logged_error")
    /\ UNCHANGED <<instances, srv, subReq, renewReq, unsubReq, ua, issued, closed, callback, notif>>

\* the renew() of a loop task is answered; the task sleeps again
LoopRenewDone(s, out) ==
    /\ loopRenewing[s] > 0
    /\ SessionGives(out)
    /\ loopRenewing' = [loopRenewing EXCEPT ![s] = @ - 1]
    /\ loopSleeping' = [loopSleeping EXCEPT ![s] = @ + 1]
    /\ RenewAnswered(s, out)
    /\ last' = Last("auto_renew",
                    IF RenewResult(out) = "ok" THEN "ok" ELSE "logged_error")
    /\ UNCHANGED <<instances, srv, subReq, renewReq, unsubReq, ua, issued, closed, callback, notif>>

\* ------------------------------------------------ Subscription.unsubscribe
\* an early return for the unsubscribed state only
NothingToUnsubscribeWhenDone(s) == subs[s].state = StateUnsubscribed

\* line 186: unsubscribe() returns at once unless the state is subscribed
NothingToUnsubscribe(s) == subs[s].state # StateSubscribed

\* line 202: the only answer that unsubscribe() acts on
UnsubscribeAccepted(status) == status = 200

\* lines 194-204 once the request has been answered: the new fields of the
\* Subscription, the new registry and the way unsubscribe() ends
UnsubscribeResult(s, out) ==
    IF out.kind = TransportError
    THEN [obj |-> subs[s], reg |-> instances, res |-> "transport_error"]
    ELSE IF ~UnsubscribeAccepted(out.status)
    THEN [obj |-> subs[s], reg |-> instances, res |-> "ok"]
    ELSE \* self.state = 2 is assigned before the del can raise KeyError
         [obj |-> [subs[s] EXCEPT !.state = StateUnsubscribed],
          reg |-> RegistryDel(instances, subs[s].sid),
          res |-> IF RegistryHas(instances, subs[s].sid) THEN "ok"
                  ELSE "key_error"]

\* unsubscribe() called by the program, up to its return or its suspension
UnsubscribeCall(s) ==
    IF NothingToUnsubscribe(s)
    THEN /\ last' = Last("unsubscribe", "ok")
         /\ UNCHANGED <<subs, instances, srv, subReq, renewReq, unsubReq,
                        loops, ua, issued, closed, callback, notif>>
    ELSE /\ unsubReq' = [unsubReq EXCEPT ![s] = @ + 1]
         /\ last' = Last("unsubscribe", "pending")
         /\ UNCHANGED <<subs, instances, srv, subReq, renewReq, loops, ua, issued, closed, callback, notif>>

\* unsubscribe() from the answer to its request to its end
UnsubscribeDone(s, out) ==
    /\ unsubReq[s] > 0
    /\ SessionGives(out)
    /\ unsubReq' = [unsubReq EXCEPT ![s] = @ - 1]
    /\ subs' = [subs EXCEPT ![s] = UnsubscribeResult(s, out).obj]
    /\ instances' = UnsubscribeResult(s, out).reg
    /\ last' = Last("unsubscribe", UnsubscribeResult(s, out).res)
    /\ UNCHANGED <<srv, subReq, renewReq, loops, ua, issued, closed, callback, notif>>

\* -------------------------------------------- Subscription.unsubscribe_all
\* the loop of line 56 runs on without suspending over every Subscription
\* whose unsubscribe() returns at once
RECURSIVE SkipIdle(_, _)
SkipIdle(seq, objs) ==
    IF seq = <<>> THEN <<>>
    ELSE IF objs[Head(seq)].state # StateSubscribed
    THEN SkipIdle(Tail(seq), objs)
    ELSE seq

\* the loop goes on over todo: it ends, or it suspends in the request of
\* the first Subscription that is subscribed
UaContinue(todo, objs) ==
    LET live == SkipIdle(todo, objs)
    IN IF live = <<>>
       THEN /\ ua' = UaIdle
            /\ last' = Last("unsubscribe_all", "ok")
       ELSE /\ ua' = [pc |-> "waiting", cur |-> Head(live), rest |-> Tail(live)]
            /\ last' = Last("unsubscribe_all", "pending")

\* unsubscribe_all() is called: snapshot of the registry, start of the loop
UaCall ==
    /\ ua.pc = "idle"
    /\ UaContinue(RegistryValues(instances), subs)
    /\ UNCHANGED <<subs, instances, srv, subReq, renewReq, unsubReq, loops,
                   issued, closed, callback, notif>>

\* the unsubscribe() awaited by unsubscribe_all() is answered; an exception
\* ends unsubscribe_all(), otherwise the loop goes on
UaDone(out) ==
    /\ ua.pc = "waiting"
    /\ SessionGives(out)
    /\ subs' = [subs EXCEPT ![ua.cur] = UnsubscribeResult(ua.cur, out).obj]
    /\ instances' = UnsubscribeResult(ua.cur, out).reg
    /\ IF UnsubscribeResult(ua.cur, out).res # "ok"
       THEN /\ ua' = UaIdle
            /\ last' = Last("unsubscribe_all", UnsubscribeResult(ua.cur, out).res)
       ELSE UaContinue(ua.rest, subs')
    /\ UNCHANGED <<srv, subReq, renewReq, unsubReq, loops, issued, closed, callback, notif>>

\* ------------------------------------------------------------ EventServer
\* A request that reaches the server has a method, headers (names in lower
\* case, as the case-insensitive multidict finds them) and a body.  A body
\* is XML or not; an XML body is a propertyset: property elements, each
\* holding variables <<tag, text>>.
SeqTexts == {<<"5">>, <<"1", "2">>, <<"x">>}
BodyVolumeTwice ==
    [xml |-> TRUE,
     propertyset |-> << << <<"Volume", "1">>, <<"Mute", "0">> >>,
                        << <<"Volume", "2">> >> >>]
BodyNotXml == [xml |-> FALSE, propertyset |-> <<>>]

\* NOTIFY requests with content type text/xml, with and without the SID
\* and SEQ headers, with an XML body; such requests with both headers and
\* a body that is not XML; one NOTIFY of another content type, one without
\* the header, and a request of another method
NotifyHeaders ==
    {("content-type" :> "text/xml") @@ h @@ g :
        h \in {NoHeaders} \cup {("sid" :> k) : k \in Sids},
        g \in {NoHeaders} \cup {("seq" :> n) : n \in SeqTexts}}
OtherHeaders ==
    {h @@ ("sid" :> 1) @@ ("seq" :> <<"5">>) :
        h \in {NoHeaders, ("content-type" :> "text/html")}}
Requests ==
    [method : {"NOTIFY"}, headers : NotifyHeaders,
     body : {BodyVolumeTwice}] \cup
    [method : {"NOTIFY"},
     headers : {h \in NotifyHeaders : DOMAIN h = {"content-type", "sid", "seq"}
                                      /\ h["seq"] = <<"5">>},
     body : {BodyNotXml}] \cup
    [method : {"NOTIFY"}, headers : OtherHeaders, body : {BodyVolumeTwice}] \cup
    [method : {"GET"}, headers : {NoHeaders}, body : {BodyNotXml}] \cup
    [method : {"GET"},
     headers : {h \in NotifyHeaders : DOMAIN h = {"content-type", "sid", "seq"}
                                      /\ h["sid"] = 1 /\ h["seq"] = <<"5">>},
     body : {BodyVolumeTwice}]

\* result[tag] = text on a dict kept as pairs in insertion order
DictPut(d, k, v) ==
    IF \E i \in 1 .. Len(d) : d[i][1] = k
    THEN [i \in 1 .. Len(d) |-> IF d[i][1] = k THEN <<k, v>> ELSE d[i]]
    ELSE Append(d, <<k, v>>)

\* parsers.parse_event_body, lines 196-208, for variables other than
\* LastChange and ZoneGroupState
RECURSIVE ParseVariables(_, _)
ParseVariables(variables, d) ==
    IF variables = <<>> THEN d
    ELSE ParseVariables(Tail(variables),
                        DictPut(d, Head(variables)[1], Head(variables)[2]))

\* parsers.parse_event_body, lines 194-195: the loop over the properties
RECURSIVE ParseProperties(_, _)
ParseProperties(properties, d) ==
    IF properties = <<>> THEN d
    ELSE ParseProperties(Tail(properties),
                         ParseVariables(Head(properties), d))

\* parsers.parse_event_body: ElementTree.fromstring raises ParseError on a
\* body that is not XML
ParseEventBody(body) ==
    IF ~body.xml THEN [ok |-> FALSE, err |-> "parse_error"]
    ELSE [ok |-> TRUE, val |-> ParseProperties(body.propertyset, <<>>)]

\* what parse_event hands back: the exception it raised if any, the number
\* of registry lookups it made, and the Subscription and Event if found
Parsed(raised, lookups, s, event) ==
    [raised |-> raised, lookups |-> lookups, found |-> s # NoSub,
     sub |-> s, event |-> event]

\* a parse_event that drops an event whose SEQ is not above the SEQ of the
\* latest event delivered
ParseEventInOrder(headers, body) ==
    IF ~HasHeader(headers, "sid")
    THEN Parsed("key_error", 0, NoSub, NoCall.event)
    ELSE IF ~HasHeader(headers, "seq")
    THEN Parsed("key_error", 0, NoSub, NoCall.event)
    ELSE IF ~ParseInt(headers["seq"]).ok
    THEN Parsed("value_error", 0, NoSub, NoCall.event)
    ELSE IF GetInstance(headers["sid"]) = NoSub
    THEN Parsed("none", 1, NoSub, NoCall.event)
    ELSE IF ParseInt(headers["seq"]).val <= delivered.event.seq
    THEN Parsed("none", 1, NoSub, NoCall.event)
    ELSE IF ~ParseEventBody(body).ok
    THEN Parsed("parse_error", 1, NoSub, NoCall.event)
    ELSE Parsed("none", 1, GetInstance(headers["sid"]),
                Event(GetInstance(headers["sid"]), ParseInt(headers["seq"]).val,
                      ParseEventBody(body).val))

\* a parse_event that looks the sid up before it reads the SEQ header
ParseEventLookupFirst(headers, body) ==
    IF ~HasHeader(headers, "sid")
    THEN Parsed("key_error", 0, NoSub, NoCall.event)
    ELSE IF ~HasHeader(headers, "seq")
    THEN Parsed("key_error", 1, NoSub, NoCall.event)
    ELSE IF ~ParseInt(headers["seq"]).ok
    THEN Parsed("value_error", 1, NoSub, NoCall.event)
    ELSE IF GetInstance(headers["sid"]) = NoSub
    THEN Parsed("none", 1, NoSub, NoCall.event)
    ELSE IF ~ParseEventBody(body).ok
    THEN Parsed("parse_error", 1, NoSub, NoCall.event)
    ELSE Parsed("none", 1, GetInstance(headers["sid"]),
                Event(GetInstance(headers["sid"]), ParseInt(headers["seq"]).val,
                      ParseEventBody(body).val))

\* EventServer.parse_event
ParseEvent(headers, body) ==
    IF ~HasHeader(headers, "sid")
    THEN Parsed("key_error", 0, NoSub, NoCall.event)
    ELSE IF ~HasHeader(headers, "seq")
    THEN Parsed("key_error", 0, NoSub, NoCall.event)
    ELSE IF ~ParseInt(headers["seq"]).ok
    THEN Parsed("value_error", 0, NoSub, NoCall.event)
    ELSE IF GetInstance(headers["sid"]) = NoSub
    THEN Parsed("none", 1, NoSub, NoCall.event)
    ELSE IF ~ParseEventBody(body).ok
    THEN Parsed("parse_error", 1, NoSub, NoCall.event)
    ELSE Parsed("none", 1, GetInstance(headers["sid"]),
                Event(GetInstance(headers["sid"]), ParseInt(headers["seq"]).val,
                      ParseEventBody(body).val))

\* the way handle() ends: it returns web.Response(text='') at line 304, or
\* the exception raised under it leaves it
Answered(parsed) ==
    [parsed EXCEPT !.raised = IF @ = "none" THEN "success" ELSE @]

\* the status the device receives: 200 for the Response of line 304, and
\* the 500 that aiohttp's web.Server sends when the handler raised
ResponseStatus(res) == IF res = "success" THEN 200 ELSE 500

\* a handler that parses the event of every request with content type
\* text/xml, whatever its method
HandleAnyMethod(req) ==
    LET quiet == Parsed("none", 0, NoSub, NoCall.event)
    IN IF ~HasHeader(req.headers, "content-type")
       THEN Answered(Parsed("key_error", 0, NoSub, NoCall.event))
       ELSE IF req.headers["content-type"] # "text/xml" THEN Answered(quiet)
       ELSE Answered(ParseEvent(req.headers, req.body))

\* EventServer.handle, lines 297-304, once the body has been read: the
\* answer, the lookups made and the handle_event call to schedule
Handle(req) ==
    LET quiet == Parsed("none", 0, NoSub, NoCall.event)
    IN IF req.method # "NOTIFY" THEN Answered(quiet)
       ELSE IF ~HasHeader(req.headers, "content-type")
       THEN Answered(Parsed("key_error", 0, NoSub, NoCall.event))
       ELSE IF req.headers["content-type"] # "text/xml" THEN Answered(quiet)
       ELSE Answered(ParseEvent(req.headers, req.body))

\* a request handler that calls the callback itself before it answers
NotifyHandleInline(req) ==
    /\ url # NoUrl
    /\ LET answer == Handle(req)
       IN /\ delivered' = IF answer.found
                          THEN [sub |-> answer.sub, event |-> answer.event]
                          ELSE delivered
          /\ last' = Last("notify", answer.raised)
    /\ UNCHANGED <<subs, instances, srv, subReq, renewReq, unsubReq, loops,
                   ua, issued, closed, callback, queue>>

\* EventServer.handle for one request.  Nothing of the program is read or
\* written before the body has been read (line 295), so the handler acts
\* when the read returns.  The site takes requests once it has started.
NotifyHandle(req) ==
    /\ url # NoUrl
    /\ LET answer == Handle(req)
       IN /\ queue' = IF answer.found
                      THEN Append(queue, [sub |-> answer.sub,
                                          event |-> answer.event])
                      ELSE queue
          /\ last' = Last("notify", answer.raised)
    /\ UNCHANGED <<subs, instances, srv, subReq, renewReq, unsubReq, loops,
                   ua, issued, closed, callback, delivered>>

\* a handler whose exception ends the renewal tasks
HandleEventRunCrashing(raised) ==
    /\ queue # <<>>
    /\ queue' = Tail(queue)
    /\ delivered' = Head(queue)
    /\ last' = Last("handle_event", IF raised THEN "logged_error" ELSE "ok")
    /\ loopSleeping' = IF raised THEN [s \in Subs |-> 0] ELSE loopSleeping
    /\ UNCHANGED <<subs, instances, srv, subReq, renewReq, unsubReq,
                   loopRenewing, ua, issued, closed, callback>>

\* the event loop runs the oldest scheduled Subscription.handle_event
\* (lines 223-225): the callback is called with the Event; an exception of
\* the callback ends in the loop's exception handler, which logs it
HandleEventRun(raised) ==
    /\ queue # <<>>
    /\ queue' = Tail(queue)
    /\ delivered' = Head(queue)
    /\ last' = Last("handle_event", IF raised THEN "logged_error" ELSE "ok")
    /\ UNCHANGED <<subs, instances, srv, subReq, renewReq, unsubReq, loops,
                   ua, issued, closed, callback>>

\* ---------------------------------------------------------- specifications
\* The program around the library decides which calls are made.  It uses
\* the Subscriptions in S, passes auto_renew arguments from ARs and lets at
\* most n coroutines be suspended at one time; the devices' answers and the
\* clock readings are drawn from the sets above.
Bounded(n) == Inflight <= n

Calls(S, ARs, n) ==
    \/ \E s \in S : SubscribeCall(s) /\ Bounded(n)'
    \/ EnsureSetupDone
    \/ \E ok \in BOOLEAN : EnsureAddrDone(ok)
    \/ EnsureStartDone
    \/ \E s \in S, ar \in ARs, out \in SubscribeOutcomes(FreshSids) :
          SubscribeDone(s, ar, out)
    \/ \E s \in S : RenewCall(s) /\ Bounded(n)'
    \/ \E s \in S, out \in RenewOutcomes : RenewDone(s, out)
    \/ \E s \in S : UnsubscribeCall(s) /\ Bounded(n)'
    \/ \E s \in S, out \in UnsubscribeOutcomes : UnsubscribeDone(s, out)
    \/ UaCall /\ Bounded(n)'
    \/ \E out \in UnsubscribeOutcomes : UaDone(out)

\* the renewal tasks that subscribe(auto_renew=True) created
Loops(S, n) ==
    \/ \E s \in S : LoopWake(s) /\ Bounded(n)'
    \/ \E s \in S, out \in RenewOutcomes : LoopRenewDone(s, out)

\* one Subscription; calls are started while others are still suspended
Next == Calls({1}, BOOLEAN, MaxInflight) \/ Loops({1}, MaxInflight)

Spec == Init /\ [][Next]_vars

\* the devices' NOTIFY requests and the event loop's scheduled calls, with
\* at most q calls scheduled at one time
Notifies(q) ==
    \/ \E req \in Requests : NotifyHandle(req) /\ Len(queue') <= q
    \/ \E raised \in BOOLEAN : HandleEventRun(raised)

\* one Subscription with its renewal task, the program awaiting each call
\* before it makes the next, and the notifications of its device
NextNotify == Calls({1}, BOOLEAN, 1) \/ Loops({1}, 1) \/ Notifies(MaxQueue)

SpecNotify == Init /\ [][NextNotify]_vars

\* every Subscription, without renewal tasks; the program awaits each call
\* before it makes the next
NextAll == Calls(Subs, {FALSE}, 1)

SpecAll == Init /\ [][NextAll]_vars

\* one Subscription whose device accepts the SUBSCRIBE and grants any of
\* the timeouts, spelled in any of the ways above, or answers in one of
\* the other ways
NextTimeout ==
    \/ SubscribeCall(1) /\ Bounded(1)'
    \/ EnsureSetupDone
    \/ \E ok \in BOOLEAN : EnsureAddrDone(ok)
    \/ EnsureStartDone
    \/ \E ar \in BOOLEAN, out \in TimeoutOutcomes(FreshSids) :
          SubscribeDone(1, ar, out)
    \/ \E ar \in BOOLEAN, out \in SubscribeOutcomes(FreshSids) :
          SubscribeDone(1, ar, out)

SpecTimeout == Init /\ [][NextTimeout]_vars

\* one Subscription and its renewal task; the device grants any of the
\* timeouts at the subscribe and again at each renewal
NextRegrant ==
    \/ NextTimeout
    \/ LoopWake(1) /\ Bounded(1)'
    \/ \E out \in RegrantOutcomes : LoopRenewDone(1, out)

SpecRegrant == Init /\ [][NextRegrant]_vars

\* Subscriptions 1 and 2, on two devices, are subscribed one after the
\* other with auto_renew, and their renewal tasks run
WakesB == LoopWake(2)
AnsweredB == \E out \in RenewOutcomes : LoopRenewDone(2, out)

NextPair ==
    \/ \E s \in {1, 2} : SubscribeCall(s) /\ Bounded(1)'
    \/ EnsureSetupDone
    \/ \E ok \in BOOLEAN : EnsureAddrDone(ok)
    \/ EnsureStartDone
    \/ \E s \in {1, 2}, out \in SubscribeOutcomes(FreshSids) :
          SubscribeDone(s, TRUE, out)
    \/ LoopWake(1)
    \/ \E out \in RenewOutcomes : LoopRenewDone(1, out)
    \/ WakesB
    \/ AnsweredB

\* the device of Subscription 1 may leave a renewal unanswered for ever;
\* the sleep of the task of Subscription 2 ends after its finite delay
\* and the device of Subscription 2 answers, or its request times out
SpecPair ==
    Init /\ [][NextPair]_vars /\ WF_vars(WakesB) /\ WF_vars(AnsweredB)

\* the steps of the renewal task of Subscription 1: its sleep ends, and
\* its request is answered
LoopWakes == LoopWake(1) /\ Bounded(MaxInflight)'
LoopAnswered == \E out \in RenewOutcomes : LoopRenewDone(1, out)

\* one Subscription subscribed with auto_renew, the program awaiting each
\* call before it makes the next, and the renewal task running beside
\* the program's calls
NextRenewal == Calls({1}, {TRUE}, 1) \/ LoopWakes \/ LoopAnswered

\* asyncio.sleep(auto_renew_delay) returns after a finite delay, and
\* session.request(timeout=3.0) returns or raises within its timeout: an
\* enabled step of the renewal task is eventually taken
SpecRenewal ==
    Init /\ [][NextRenewal]_vars /\ WF_vars(LoopWakes) /\ WF_vars(LoopAnswered)

\* one Subscription subscribed with auto_renew and its renewal task; the
\* program awaits each call of a Subscription before it makes the next
\* and may shut the library down with close() at any time
NextClose ==
    \/ Calls({1}, {TRUE}, 1)
    \/ Loops({1}, MaxInflight)
    \/ Close

SpecClose == Init /\ [][NextClose]_vars

\* ------------------------------------------------------------- properties
\* s has an entry in the registry
Registered(s) == \E i \in 1 .. Len(instances) : instances[i].sub = s

\* subscribe() calls of s that have not ended
SubscribePending(s) ==
    subReq[s] + (IF ensure.pc # "none" /\ ensure.sub = s THEN 1 ELSE 0)

\* UNSUBSCRIBE requests of s that have not been answered
UnsubscribeOutstanding(s) ==
    unsubReq[s] + (IF ua.pc = "waiting" /\ ua.cur = s THEN 1 ELSE 0)

\* a response to SUBSCRIBE with a success status whose SID or TIMEOUT
\* header is missing or does not parse
Malformed(out) ==
    /\ out.kind = "response"
    /\ ~RaisesForStatus(out.status)
    /\ ~HasHeader(out.headers, "sid") \/ ~ParseTimeout(out.headers).ok

\* the fields of a Subscription other than timeout and timestamp
Identity(obj) == [obj EXCEPT !.timeout = 0, !.timestamp = 0]

\* C1: subscribe() called on a Subscription that is not NEW ends with the
\* usage error, sends nothing and changes neither the Subscription nor the
\* registry; a call is only ever started (server start-up or SUBSCRIBE
\* request) in state NEW; and a subscribe() that ends successfully leaves
\* the state SUBSCRIBED.
C1_SubscribeOnlyFromNew ==
    [][\A s \in Subs :
          /\ (subs[s].state # StateNew /\ SubscribeCall(s)) =>
                /\ last' = Last("subscribe", "usage_error")
                /\ UNCHANGED <<subs, instances, subReq, ensure, server>>
          /\ (SubscribePending(s)' > SubscribePending(s)) =>
                subs[s].state = StateNew
          /\ (subReq'[s] < subReq[s] /\ last' = Last("subscribe", "ok")) =>
                subs'[s].state = StateSubscribed
      ]_vars

\* C1 witness: subscribe() was called on the subscribed, registered
\* Subscription and ended with the usage error
C1_Witness ==
    /\ last = Last("subscribe", "usage_error")
    /\ subs[1].state = StateSubscribed
    /\ Registered(1)
    /\ subReq[1] = 0

\* C2: the state of a Subscription never decreases and never goes from NEW
\* to UNSUBSCRIBED in one step, so nothing leaves UNSUBSCRIBED.
C2_StateMonotonic ==
    [][\A s \in Subs :
          /\ subs'[s].state >= subs[s].state
          /\ subs[s].state = StateNew => subs'[s].state # StateUnsubscribed
      ]_vars

\* C3: a subscribe() that receives a malformed response changes neither
\* the state nor the sid of the Subscription nor the registry.
C3_MalformedResponseAtomic ==
    [][\A s \in Subs :
          subReq'[s] < subReq[s] =>
             \A ar \in BOOLEAN, out \in SubscribeOutcomes(FreshSids) :
                (Malformed(out) /\ SubscribeDone(s, ar, out)) =>
                   /\ subs'[s].state = subs[s].state
                   /\ subs'[s].sid = subs[s].sid
                   /\ instances' = instances
      ]_vars

\* C4: when the UNSUBSCRIBE of a subscribed Subscription is answered with
\* any 2xx status, the Subscription becomes UNSUBSCRIBED and neither its
\* sid nor the Subscription itself is left in the registry.
C4_UnsubscribeOnAny2xx ==
    [][\A s \in Subs :
          (unsubReq'[s] < unsubReq[s] /\ subs[s].state = StateSubscribed) =>
             \A out \in UnsubscribeOutcomes :
                (/\ out.kind = "response"
                 /\ out.status \in 200 .. 299
                 /\ UnsubscribeDone(s, out)) =>
                   /\ subs'[s].state = StateUnsubscribed
                   /\ ~RegistryHas(instances', subs[s].sid)
                   /\ ~Registered(s)'
      ]_vars

\* C5: when the UNSUBSCRIBE of a subscribed Subscription is answered with
\* 412, unsubscribe() returns without error, the Subscription becomes
\* UNSUBSCRIBED and its registry entry is removed.
C5_Unsubscribe412IsSuccess ==
    [][\A s \in Subs :
          (unsubReq'[s] < unsubReq[s] /\ subs[s].state = StateSubscribed) =>
             \A out \in UnsubscribeOutcomes :
                (/\ out.kind = "response"
                 /\ out.status = 412
                 /\ UnsubscribeDone(s, out)) =>
                   /\ last' = Last("unsubscribe", "ok")
                   /\ subs'[s].state = StateUnsubscribed
                   /\ ~RegistryHas(instances', subs[s].sid)
      ]_vars

\* C6: unsubscribe() never ends by raising the transport error of its
\* request.
C6_UnsubscribeSwallowsTransportError ==
    last # Last("unsubscribe", "transport_error")

\* C7: when unsubscribe_all() ends, on an answer that is a transport error
\* or a 200, the registry is empty and no Subscription of its snapshot is
\* left subscribed without an attempt.
C7_UnsubscribeAllDrains ==
    [][(ua.pc = "waiting" /\ ua'.pc = "idle") =>
          \A out \in UnsubscribeOutcomes :
             (/\ out.kind = TransportError \/ out.status = 200
              /\ UaDone(out)) =>
                /\ instances' = <<>>
                /\ \A i \in 1 .. Len(ua.rest) :
                      subs'[ua.rest[i]].state # StateSubscribed
      ]_vars

\* C8: the UNSUBSCRIBE request of a Subscription is sent at most once: an
\* unsubscribe() that starts while another one awaits the answer sends no
\* request, so two requests of one Subscription are never outstanding.
C8_UnsubscribeSentOnce ==
    \A s \in Subs : UnsubscribeOutstanding(s) <= 1

\* C9: unsubscribe() called on a Subscription that is NEW or UNSUBSCRIBED
\* returns without error, sends no request and changes neither the
\* Subscription (state, sid, timeout and the rest) nor the registry.
C9_UnsubscribeNoOp ==
    [][\A s \in Subs :
          (subs[s].state # StateSubscribed /\ UnsubscribeCall(s)) =>
             /\ last' = Last("unsubscribe", "ok")
             /\ UNCHANGED <<subs, instances, unsubReq, ua>>
      ]_vars

\* C9 witness: unsubscribe() has returned on a Subscription that is NEW
\* (a request is only ever sent once the state has left NEW)
C9_Witness ==
    /\ last = Last("unsubscribe", "ok")
    /\ subs[1].state = StateNew
    /\ unsubReq[1] = 0

\* C10: no step of renew(), called by the program or by the renewal loop,
\* changes the registry or any field of the Subscription other than
\* timeout and timestamp; sid and state are as before.
C10_RenewFrame ==
    [][\A s \in Subs :
          /\ RenewCall(s) => UNCHANGED <<subs, instances>>
          /\ (renewReq'[s] < renewReq[s] \/ loopRenewing'[s] < loopRenewing[s]) =>
                /\ Identity(subs'[s]) = Identity(subs[s])
                /\ subs'[s].sid = subs[s].sid
                /\ subs'[s].state = subs[s].state
                /\ instances' = instances
      ]_vars

\* C10 witness: a renew() has succeeded on the subscribed Subscription and
\* replaced the timeout 1800 of its subscribe() (delay 1710) by "infinite"
C10_Witness ==
    /\ last = Last("renew", "ok")
    /\ subs[1].state = StateSubscribed
    /\ subs[1].auto_renew_delay = 1710
    /\ subs[1].timeout = -1
    /\ Registered(1)

\* C11: renew() called on a Subscription that is not SUBSCRIBED ends with
\* the usage error, sends no request and changes neither the Subscription
\* nor the registry; when the renewal loop made the call, the error is
\* logged and the loop's task sleeps again.
C11_RenewUsageError ==
    [][\A s \in Subs :
          subs[s].state # StateSubscribed =>
             /\ RenewCall(s) =>
                   /\ last' = Last("renew", "usage_error")
                   /\ UNCHANGED <<subs, instances, renewReq>>
             /\ LoopWake(s) =>
                   /\ last' = Last("auto_renew", "logged_usage_error")
                   /\ UNCHANGED <<subs, instances, renewReq, loops>>
      ]_vars

\* C11 witness: the renewal loop of the unsubscribed Subscription woke up,
\* its renew() failed and the task is asleep again
C11_Witness ==
    /\ last = Last("auto_renew", "logged_usage_error")
    /\ subs[1].state = StateUnsubscribed
    /\ loopSleeping[1] > 0
    /\ loopRenewing[1] = 0

\* C12: a subscribe() whose SUBSCRIBE fails in transport or is answered
\* with an error status ends with that error and changes neither the
\* Subscription nor the registry nor the renewal tasks: a Subscription
\* that was NEW, without sid and unregistered is so afterwards.
C12_SubscribeFailureLeavesNew ==
    [][\A s \in Subs :
          subReq'[s] < subReq[s] =>
             \A ar \in BOOLEAN, out \in Failures :
                SubscribeDone(s, ar, out) =>
                   /\ last' = Last("subscribe",
                                   IF out.kind = TransportError
                                   THEN "transport_error" ELSE "status_error")
                   /\ UNCHANGED <<subs, instances, loops>>
                   /\ (subs[s].state = StateNew /\ subs[s].sid = EmptySid
                          /\ ~Registered(s)) =>
                         /\ subs'[s].state = StateNew
                         /\ subs'[s].sid = EmptySid
                         /\ ~Registered(s)'
                         /\ ~subs'[s].auto_renew_task
      ]_vars

\* C12 witness: a subscribe() ended with the error status of its device
\* and the Subscription is still NEW, without sid and unregistered
C12_Witness ==
    /\ last = Last("subscribe", "status_error")
    /\ subs[1].state = StateNew
    /\ subs[1].sid = EmptySid
    /\ subs[1].subscribe_url # <<>>
    /\ ~Registered(1)
    /\ loopSleeping[1] = 0

\* C13: a renew() whose request fails in transport, is answered with an
\* error status or is answered without a TIMEOUT header that parses ends
\* with the error and changes neither the Subscription (state, sid,
\* timeout, timestamp) nor the registry.
C13_RenewFailureFrame ==
    [][\A s \in Subs :
          renewReq'[s] < renewReq[s] =>
             \A out \in RenewOutcomes :
                (/\ \/ out.kind = TransportError
                    \/ out.status >= 400
                    \/ ~ParseTimeout(out.headers).ok
                 /\ RenewDone(s, out)) =>
                   /\ last'.op = "renew"
                   /\ last'.res \in {"transport_error", "status_error",
                                     "key_error", "value_error"}
                   /\ UNCHANGED <<subs, instances>>
      ]_vars

\* C13 witness: a renew() of the subscribed Subscription was answered 200
\* without a TIMEOUT header and ended with the KeyError
C13_Witness ==
    /\ last = Last("renew", "key_error")
    /\ subs[1].state = StateSubscribed
    /\ subs[1].timeout = 1800
    /\ Registered(1)
    /\ renewReq[1] = 0

\* the Subscriptions registered under sid k
RegisteredUnder(k) ==
    {instances[i].sub : i \in {j \in 1 .. Len(instances) : instances[j].sid = k}}

\* the sequence numbers that the SEQ texts spell
SeqNumber == (<<"5">> :> 5) @@ (<<"1", "2">> :> 12)

\* a NOTIFY of content type text/xml
IsNotify(req) ==
    /\ req.method = "NOTIFY"
    /\ HasHeader(req.headers, "content-type")
    /\ req.headers["content-type"] = "text/xml"

\* a NOTIFY with a SID header, a SEQ header that spells an integer and an
\* XML body
WellFormed(req) ==
    /\ IsNotify(req)
    /\ HasHeader(req.headers, "sid")
    /\ HasHeader(req.headers, "seq")
    /\ req.headers["seq"] \in DOMAIN SeqNumber
    /\ req.body.xml

\* the requests drawn that are well-formed, and the NOTIFYs drawn that lack
\* the SID header or the SEQ header or whose SEQ spells no integer
WellFormedRequests == {req \in Requests : WellFormed(req)}
HeaderlessNotifies ==
    {req \in Requests :
        /\ IsNotify(req)
        /\ ~HasHeader(req.headers, "sid") \/ ~HasHeader(req.headers, "seq")}
MalformedNotifies ==
    HeaderlessNotifies \cup
    {req \in Requests :
        /\ IsNotify(req)
        /\ HasHeader(req.headers, "seq")
        /\ req.headers["seq"] \notin DOMAIN SeqNumber}

C15_UnknownSidDropped ==
    [][(/\ last'.op = "notify"
        /\ ~(/\ UNCHANGED <<queue, delivered>>
             /\ last' = Last("notify", "success")
             /\ ResponseStatus(last'.res) = 200)) =>
          \A req \in WellFormedRequests :
             ~RegistryHas(instances, req.headers["sid"]) => ~NotifyHandle(req)
      ]_vars

\* C15 witness: a NOTIFY was answered with success, nothing is scheduled,
\* and the Subscription is unsubscribed and no longer registered
C15_Witness ==
    /\ last = Last("notify", "success")
    /\ queue = <<>>
    /\ subs[1].state = StateUnsubscribed
    /\ subs[1].sid # EmptySid
    /\ instances = <<>>

\* C16: for a NOTIFY without SID header, without SEQ header or with a SEQ
\* that is no integer, the handler makes no registry lookup; and a step
\* that schedules a call or calls a callback is not the handling of such a
\* NOTIFY.
C16_MalformedNeverLooksUp ==
    /\ [](\A req \in MalformedNotifies :
             Handle(req).lookups = 0 /\ ~Handle(req).found)
    /\ [][(last'.op = "notify" /\ ~UNCHANGED <<queue, delivered>>) =>
             \A req \in MalformedNotifies : ~NotifyHandle(req)
         ]_vars

\* C16 witness: a NOTIFY whose SEQ is no integer has been handled while
\* the Subscription is registered, and nothing is scheduled
C16_Witness ==
    /\ last = Last("notify", "value_error")
    /\ Registered(1)
    /\ subs[1].state = StateSubscribed
    /\ queue = <<>>

\* C17: a NOTIFY without SID header or without SEQ header is answered
\* with a client-error status (4xx).
C17_MalformedGetsClientError ==
    [][last'.op = "notify" =>
          \A req \in HeaderlessNotifies :
             NotifyHandle(req) => ResponseStatus(last'.res) \in 400 .. 499
      ]_vars

\* C18: whatever the callback does, raising included, the step that runs
\* it changes neither the server nor a Subscription nor the registry nor
\* a renewal task nor a pending call; and every NOTIFY that scheduled a
\* call was answered with success.
C18_HandlerExceptionContained ==
    [][/\ Len(queue') < Len(queue) =>
            UNCHANGED <<subs, instances, srv, loops, subReq, renewReq,
                        unsubReq, ua>>
       /\ Len(queue') > Len(queue) =>
            /\ last' = Last("notify", "success")
            /\ ResponseStatus(last'.res) = 200
      ]_vars

\* C18 witness: the callback raised, the error was logged, and the renewal
\* task of the subscribed Subscription is still asleep behind a listening
\* server
C18_Witness ==
    /\ last = Last("handle_event", "logged_error")
    /\ delivered.sub = 1
    /\ subs[1].state = StateSubscribed
    /\ loopSleeping[1] > 0
    /\ url # NoUrl

\* C19: every ensure_running() that returns leaves the callback URL set:
\* a subscribe() that finds the server object already created goes on with
\* a URL; and the URL, once assigned, is never assigned again.
C19_EnsureRunningSafe ==
    [][/\ \A s \in Subs :
             (CanSubscribe(s) /\ server /\ SubscribeCall(s)) => url # NoUrl
       /\ url # NoUrl => url' = url
      ]_vars

\* C20: get_url() called before the URL has been assigned fails with an
\* error and the caller sends nothing; once the URL is assigned, get_url()
\* hands it back and it never changes.
C20_GetUrlFailsBeforeRunning ==
    [][/\ \A s \in Subs :
             (CanSubscribe(s) /\ server /\ url = NoUrl /\ SubscribeCall(s)) =>
                /\ last' = Last("subscribe", "attribute_error")
                /\ UNCHANGED <<subs, subReq, url>>
       /\ url # NoUrl =>
             /\ GetUrl.ok /\ GetUrl.val = url
             /\ url' = url
      ]_vars

\* C20 witness: a subscribe() asked for the URL while the server was being
\* started and ended with the AttributeError
C20_Witness ==
    /\ last = Last("subscribe", "attribute_error")
    /\ server
    /\ url = NoUrl
    /\ ensure.pc # "none"
    /\ subReq[1] = 0

\* the Subscriptions in state SUBSCRIBED whose device has address a
LiveOn(a) ==
    {s \in Subs : subs[s].state = StateSubscribed /\ IpAddress(PlayerOf(s)) = a}

\* the elements of a sequence
Range(seq) == {seq[i] : i \in 1 .. Len(seq)}

\* C21: while the registry holds subscribed Subscriptions only (every
\* subscribe so far succeeded), get_subscriptions lists exactly the
\* subscribed Subscriptions of the device with the address of the Player
\* passed in, whichever Player reference for that address it is.
C21_ListingByAddress ==
    (\A s \in Range(RegistryValues(instances)) :
        subs[s].state = StateSubscribed) =>
    \A a \in Subs : \A p \in PlayerRefs(a) :
        Range(GetSubscriptions(p)) = LiveOn(a)

\* C22: no two subscribed Subscriptions hold the same sid; the sid of a
\* Subscription is assigned by the step that ends its subscribe()
\* successfully and by no other, and once assigned it never changes; and
\* no step makes the registry key of a subscribed Subscription refer to
\* another Subscription.
C22_SidAssignedOnce ==
    /\ [](\A s, o \in Subs :
            (s # o /\ subs[s].state = StateSubscribed
                   /\ subs[o].state = StateSubscribed) =>
               subs[s].sid # subs[o].sid)
    /\ [][\A s \in Subs :
            /\ subs[s].sid # EmptySid => subs'[s].sid = subs[s].sid
            /\ subs'[s].sid # subs[s].sid =>
                  /\ last' = Last("subscribe", "ok")
                  /\ subs'[s].state = StateSubscribed
            /\ \A e \in Range(instances) :
                  (e.sub = s /\ subs[s].state = StateSubscribed) =>
                     \A f \in Range(instances') : f.sid = e.sid => f.sub = s
         ]_vars

\* C23: a Subscription with a renewal task has a positive timeout and a
\* delay that is 95% of the timeout rounded down when the timeout is at
\* most 3600 and the timeout less 180 otherwise (1800 gives 1710, 7200
\* gives 7020), which is less than the timeout; a subscribed Subscription
\* without a renewal task has no delay.
C23_RenewalDelay ==
    \A s \in Subs :
       LET t == subs[s].timeout
           d == subs[s].auto_renew_delay
       IN /\ subs[s].auto_renew_task =>
                /\ t > 0
                /\ t <= 3600 => 100 * d <= 95 * t /\ 95 * t < 100 * (d + 1)
                /\ t > 3600 => d = t - 180
                /\ t = 1800 => d = 1710
                /\ t = 7200 => d = 7020
                /\ d < t
          /\ ~subs[s].auto_renew_task => d = NoDelay

\* C23 witness: subscribe(auto_renew=True) was granted 7200 seconds and
\* set the delay of its renewal task to 7020
C23_Witness ==
    /\ subs[1].state = StateSubscribed
    /\ subs[1].auto_renew_task
    /\ subs[1].timeout = 7200
    /\ subs[1].auto_renew_delay = 7020

\* C24: a subscribe() whose response spells the timeout as the word
\* infinite, in any letter case, ends successfully with timeout -1, and
\* one whose response says Second-N ends successfully with timeout N.
C24_ParseTimeout ==
    [][\A s \in Subs :
          subReq'[s] < subReq[s] =>
             \A ar \in BOOLEAN, out \in TimeoutOutcomes(FreshSids) :
                SubscribeDone(s, ar, out) =>
                   /\ last' = Last("subscribe", "ok")
                   /\ out.headers.timeout \in InfiniteTexts =>
                         subs'[s].timeout = -1
                   /\ \A n \in TimeoutValues :
                         out.headers.timeout = SecondHdr(n) =>
                            subs'[s].timeout = n
      ]_vars

\* C24 witness: a subscribe() answered with Second-1800 has ended and the
\* Subscription holds the timeout 1800
C24_Witness ==
    /\ last = Last("subscribe", "ok")
    /\ subs[1].state = StateSubscribed
    /\ subs[1].timeout = 1800
    /\ ~subs[1].auto_renew_task

\* C25: a renewal of the loop that failed leaves the loop task sleeping,
\* and from there the task eventually makes another renewal attempt
\* unless the Subscription has left the state SUBSCRIBED.
C25_LoopRetries ==
    /\ [](last = Last("auto_renew", "logged_error") => loopSleeping[1] > 0)
    /\ (last = Last("auto_renew", "logged_error"))
          ~> (loopRenewing[1] > 0 \/ subs[1].state # StateSubscribed)

\* C25 witness: the renewal of the loop has failed, the Subscription is
\* still subscribed and the task sleeps again
C25_Witness ==
    /\ last = Last("auto_renew", "logged_error")
    /\ subs[1].state = StateSubscribed
    /\ loopSleeping[1] = 1
    /\ loopRenewing[1] = 0

\* the renewal loop of s has to be stopped: s is unsubscribed or the
\* library has been shut down
LoopDue(s) ==
    /\ subs[s].auto_renew_task
    /\ subs[s].state = StateUnsubscribed \/ closed

\* C26: once a Subscription with a renewal task is unsubscribed or
\* close() has been called, the task is not sleeping any more and its
\* sleep never ends in another call of renew().
C26_LoopStopped ==
    /\ [](\A s \in Subs : LoopDue(s) => loopSleeping[s] = 0)
    /\ [][\A s \in Subs : LoopDue(s) => ~LoopWake(s)]_vars

\* C27: the step of close() leaves no Subscription in the registry, and
\* after close() no Subscription is subscribed without an UNSUBSCRIBE
\* having been sent for it.
C27_CloseDrains ==
    /\ [](closed => instances = <<>>)
    /\ [][Close => \A s \in Subs : subs'[s].state # StateSubscribed]_vars

\* C28: every registry entry maps its key to a Subscription that is
\* subscribed and holds that key as its sid, and every subscribed
\* Subscription has the entry of its sid.
C28_RegistryAgreesWithStates ==
    /\ \A e \in Range(instances) :
          /\ subs[e.sub].state = StateSubscribed
          /\ subs[e.sub].sid = e.sid
    /\ \A s \in Subs :
          subs[s].state = StateSubscribed =>
             [sid |-> subs[s].sid, sub |-> s] \in Range(instances)

\* C29: at no time are two initial SUBSCRIBE requests of one Subscription
\* awaiting their responses, and a Subscription that holds a sid is never
\* given another one.
C29_SingleUseInterleaved ==
    /\ [](\A s \in Subs : subReq[s] <= 1)
    /\ [][\A s \in Subs :
            subs[s].sid # EmptySid => subs'[s].sid = subs[s].sid]_vars

\* C30: the step of the request handler that dispatches a NOTIFY only
\* schedules the call of the callback and answers with success, without
\* calling the callback; a callback is called only by a later step of
\* its own, which takes the oldest scheduled call.
C30_HandlerRunsAfterResponse ==
    [][/\ Len(queue') > Len(queue) =>
             /\ delivered' = delivered
             /\ last' = Last("notify", "success")
             /\ ResponseStatus(last'.res) = 200
       /\ (delivered' # delivered \/ Len(queue') < Len(queue)) =>
             /\ queue # <<>>
             /\ delivered' = Head(queue)
             /\ queue' = Tail(queue)
             /\ last'.op = "handle_event"
      ]_vars

\* C30 witness: a NOTIFY has been answered with success and the call of
\* the callback is scheduled, while no callback has run yet
C30_Witness ==
    /\ last = Last("notify", "success")
    /\ Len(queue) = 1
    /\ queue[1].sub = 1
    /\ delivered = NoCall

\* C31: every step that sends an initial SUBSCRIBE finds the server
\* created and listening once the step is over (its URL is assigned
\* after site.start() has returned) and puts that URL into the Callback
\* header; so every subscribed Subscription advertised the URL of the
\* listening server.
C31_SubscribeAfterListening ==
    /\ [](\A s \in Subs :
            subs[s].state = StateSubscribed =>
               server /\ url # NoUrl /\ callback[s] = url)
    /\ [][\A s \in Subs :
            subReq'[s] > subReq[s] =>
               server' /\ url' # NoUrl /\ callback'[s] = url']_vars

\* C31 witness: the first subscribe() started the server, sent its
\* request with the server's URL and has been answered
C31_Witness ==
    /\ subs[1].state = StateSubscribed
    /\ server
    /\ callback[1] = LocalAddr(PlayerOf(1))
    /\ callback[1] = url
    /\ subReq[1] = 0

\* C32: the Callback header of every initial SUBSCRIBE carries the local
\* address through which the device of that Subscription is reached.
C32_CallbackOnOwnInterface ==
    [][\A s \in Subs :
          subReq'[s] > subReq[s] =>
             callback'[s] = LocalAddr(PlayerOf(s))]_vars

\* the renewal tasks of s
LoopTasks(s) == loopSleeping[s] + loopRenewing[s]

\* C33: the step that ends a subscribe() creates a renewal task exactly
\* when the call succeeded, auto_renew was asked for and the granted
\* timeout is positive, and no other step creates one; a Subscription
\* whose subscribe() never succeeded has no renewal task.
C33_RenewalTaskIff ==
    /\ [](\A s \in Subs : subs[s].state = StateNew => LoopTasks(s) = 0)
    /\ [][\A s \in Subs :
            /\ LoopTasks(s)' > LoopTasks(s) =>
                  /\ subReq'[s] < subReq[s]
                  /\ last' = Last("subscribe", "ok")
                  /\ subs'[s].timeout > 0
                  /\ subs'[s].auto_renew_task
            /\ subReq'[s] < subReq[s] =>
                  \A ar \in BOOLEAN,
                     out \in TimeoutOutcomes(FreshSids)
                             \cup SubscribeOutcomes(FreshSids) :
                     SubscribeDone(s, ar, out) =>
                        (LoopTasks(s)' = LoopTasks(s) + 1) =
                           (/\ ar
                            /\ last' = Last("subscribe", "ok")
                            /\ subs'[s].timeout > 0)
         ]_vars

\* C33 witness: subscribe(auto_renew=True) has succeeded with a timeout of
\* 0 seconds and no renewal task was created
C33_Witness ==
    /\ last = Last("subscribe", "ok")
    /\ subs[1].state = StateSubscribed
    /\ subs[1].timeout = 0
    /\ LoopTasks(1) = 0
    /\ ~subs[1].auto_renew_task

\* C34: when a renewal of the loop has succeeded with a positive timeout,
\* the delay before the next attempt is shorter than that timeout.
C34_DelayFollowsRenewal ==
    [][\A s \in Subs :
          (/\ loopRenewing'[s] < loopRenewing[s]
           /\ last' = Last("auto_renew", "ok")
           /\ subs'[s].timeout > 0) =>
             subs'[s].auto_renew_delay < subs'[s].timeout]_vars

\* C35: whatever the renewals of Subscription 1 do, also when one of them
\* is never answered, the renewal task of Subscription 2 that sleeps
\* eventually makes its renewal attempt, and its attempt is eventually
\* over and the task sleeps again.
C35_LoopsIndependent ==
    /\ (loopSleeping[2] > 0) ~> (loopRenewing[2] > 0)
    /\ (loopRenewing[2] > 0) ~> (loopSleeping[2] > 0)

\* C35 witness: a renewal of Subscription 2 has succeeded while a renewal
\* of Subscription 1 is still unanswered
C35_Witness ==
    /\ last = Last("auto_renew", "ok")
    /\ loopRenewing[1] = 1
    /\ loopSleeping[2] = 1
    /\ subs[1].state = StateSubscribed
    /\ subs[2].state = StateSubscribed

\* the requests drawn that are no NOTIFY with content type text/xml:
\* another method, another content type or none
RejectedRequests == {req \in Requests : ~IsNotify(req)}

\* C36: for a request of another method than NOTIFY or of another content
\* type than text/xml the handler makes no registry lookup and finds no
\* Subscription, and the step that handles it schedules no handle_event
\* call and calls no callback.
C36_OnlyXmlNotifyAccepted ==
    /\ [](\A req \in RejectedRequests :
             Handle(req).lookups = 0 /\ ~Handle(req).found)
    /\ [][(last'.op = "notify" /\ ~UNCHANGED <<queue, delivered>>) =>
             \A req \in RejectedRequests : ~NotifyHandle(req)
         ]_vars

\* C36 witness: a request has been answered while the Subscription is
\* subscribed and registered under the sid the GET request names, and
\* neither a call is scheduled nor a callback was called
C36_Witness ==
    /\ last = Last("notify", "success")
    /\ subs[1].state = StateSubscribed
    /\ GetInstance(1) = 1
    /\ queue = <<>>
    /\ delivered = NoCall

\* C37: whatever was delivered or is scheduled before (the same SEQ, a
\* higher or a lower one), a well-formed NOTIFY for a registered sid is
\* answered with success and dispatched as an Event with its own SEQ:
\* the step that handles it appends the call for that Event to the
\* scheduled calls, and scheduled calls are run oldest first, each once.
C37_AnySeqTolerated ==
    /\ [](\A req \in WellFormedRequests :
             RegisteredUnder(req.headers["sid"]) # {} =>
                /\ Handle(req).raised = "success"
                /\ ResponseStatus(Handle(req).raised) = 200
                /\ Handle(req).found
                /\ Handle(req).event.seq = SeqNumber[req.headers["seq"]])
    /\ [][/\ (last'.op = "notify" /\ queue' # queue) =>
                /\ last' = Last("notify", "success")
                /\ Len(queue') = Len(queue) + 1
                /\ SubSeq(queue', 1, Len(queue)) = queue
          /\ Len(queue') < Len(queue) =>
                /\ delivered' = Head(queue)
                /\ queue' = Tail(queue)
                /\ last'.op = "handle_event"
         ]_vars

\* C37 witness: after the Event with SEQ 12 was delivered, a NOTIFY with
\* SEQ 5 has been answered with success and its Event is scheduled
C37_Witness ==
    /\ last = Last("notify", "success")
    /\ delivered.sub = 1
    /\ delivered.event.seq = 12
    /\ Len(queue) = 1
    /\ queue[1].sub = 1
    /\ queue[1].event.seq = 5

\* C38: the event loop never runs a scheduled handle_event, and so never
\* calls the handler, for a Subscription whose state is UNSUBSCRIBED.
C38_NoDeliveryWhenUnsubscribed ==
    [][Len(queue') < Len(queue) =>
          subs[Head(queue).sub].state # StateUnsubscribed]_vars

\* C39: once the state of a Subscription is UNSUBSCRIBED, and no
\* subscribe() of it is suspended, no step changes its timeout or its
\* timestamp; in particular the end of a renew() that was suspended when
\* unsubscribe() completed does not.
C39_QuietWhenUnsubscribed ==
    [][\A s \in Subs :
          (subs[s].state = StateUnsubscribed /\ subReq[s] = 0) =>
             /\ subs'[s].timeout = subs[s].timeout
             /\ subs'[s].timestamp = subs[s].timestamp]_vars

\* C40: no unsubscribe() and no unsubscribe_all() ends with the KeyError of
\* a registry entry that is missing when it is deleted.
C40_RemovalFindsEntry ==
    last.op \in {"unsubscribe", "unsubscribe_all"} => last.res # "key_error"

====
